---- MODULE Spec2Model ----
(***************************************************************************)
(* Event-driven backtester: the shared event queue, the dispatch loop of   *)
(* Backtester.run, the data feed, the random and the momentum strategy,    *)
(* the portfolio accounting and the execution handler.                     *)
(*                                                                         *)
(* Prices are positive integers, a datetime is the 1-based row number of   *)
(* the feed, and a non-integer value (a signal strength, an average cost,  *)
(* a return) is an exact rational [num, den] with den > 0 in lowest terms. *)
(***************************************************************************)
EXTENDS Integers, Sequences, FiniteSets, TLC

\* ------------------------------------------------------------------ bounds
\* rows of the feed a run may consume
MaxTicks == 3
\* largest formation window j of the momentum strategy
MaxJ == 2
\* largest holding window k of the momentum strategy
MaxK == 2

\* rows of the feed of the two-symbol scenario
ScenarioTicks == 4
\* rows of the feed of the three-ticker universe
RankingTicks == 3

\* ------------------------------------------------------- program constants
InitialCash == 100000
SizingConstant == 10
MarketHistoryMaxLen == 10
ShortPercentile == 10
LongPercentile == 90

\* ------------------------------------------------------------------ inputs
\* the ticker list of the DataHandler and the tickers of the strategy, for a
\* run of the random strategy
RandomRuns ==
    {[tickers |-> <<"A">>, subscribed |-> {"A"}],
     [tickers |-> <<"A", "B">>, subscribed |-> {"A"}]}
\* the ticker list (sorted) handed to both the DataHandler and the strategy,
\* for a run of the momentum strategy
MomentumTickerLists == {<<"A">>, <<"A", "B">>}
\* (open, close) of one row of one ticker
Bars == {[open |-> 1, close |-> 2], [open |-> 2, close |-> 1]}
\* (open, close) of a ticker the strategy is not subscribed to
UnsubscribedBars == {[open |-> 2, close |-> 1]}
\* values random.uniform(-1, 1) may return
RandomStrengths ==
    {[num |-> -1, den |-> 1], [num |-> -7, den |-> 20],
     [num |-> 37, den |-> 100]}

VARIABLES
    pc,                 \* position in Backtester.run
    tick,               \* rows of the feed consumed so far
    tickers,            \* DataHandler.tickers
    subscribed,         \* Strategy.tickers
    attached,           \* the components whose event_queue is set
    strategy,           \* "random" or "momentum": the Strategy subclass
    j, k,               \* SimpleMomentumStrategy.j, .k
    event_queue,        \* Backtester.event_queue
    event,              \* the event popped by run, while it is handled
    tickers_history,    \* SimpleMomentumStrategy.tickers_history
    current_datetime,   \* SimpleMomentumStrategy.current_datetime (0 = None)
    current_period,     \* SimpleMomentumStrategy.current_period
    pending_signals,    \* SimpleMomentumStrategy.pending_signals
    market_history,     \* ExecutionHandler.market_history
    pending,            \* ExecutionHandler.pending
    cash,               \* Portfolio.cash
    current_position,   \* Portfolio.current_position
    position_history,   \* Portfolio._position_history
    asset_history,      \* Portfolio._asset_history
    enqueued,           \* history: every append to event_queue, in order
    dispatched,         \* history: every event popped by run, in order
    calls,              \* history: every handler call made by run, in order
    pending_src,        \* history: for each pending fill, its order
    fill_log,           \* history: every fill emitted by the execution handler
    pending_sched,      \* history: for each pending signal, the tick it was
                        \* scheduled in (0: by the constructor)
    exit_log,           \* history: every pending signal the strategy emitted
    replay              \* history: the run before this one, if any

progVars == <<pc, tick, tickers, subscribed, attached, strategy, j, k, event_queue, event,
              tickers_history, current_datetime, current_period,
              pending_signals, market_history, pending, cash,
              current_position, position_history, asset_history>>
histVars == <<enqueued, dispatched, calls, pending_src, fill_log,
              pending_sched, exit_log, replay>>
vars == <<progVars, histVars>>

\* ------------------------------------------------------------- arithmetic
Abs(n) == IF n < 0 THEN -n ELSE n

RECURSIVE GCD(_, _)
GCD(a, b) == IF b = 0 THEN a ELSE GCD(b, a % b)

\* the rational n/d in lowest terms with a positive denominator
Rat(n, d) ==
    CHOOSE r \in {LET g == GCD(Abs(x), Abs(y))
                      s == IF y < 0 THEN -1 ELSE 1
                  IN  [num |-> s * (x \div g), den |-> s * (y \div g)] :
                  x \in {n}, y \in {d}} : TRUE

RatInt(n) == [num |-> n, den |-> 1]
RatLeq(a, b) == a.num * b.den <= b.num * a.den
RatLt(a, b) == a.num * b.den < b.num * a.den

\* mutant: floor division
IntFloor(n, d) == n \div d

\* int(x) of Python: truncation towards zero
IntTrunc(n, d) == IF n >= 0 THEN n \div d ELSE -((-n) \div d)

Range(s) == {s[i] : i \in 1..Len(s)}

\* deque.append on a deque(maxlen=n)
DequeAppend(s, x, n) ==
    IF Len(s) >= n THEN Append(Tail(s), x) ELSE Append(s, x)

\* ------------------------------------------------------------------ events
MarketEvent(symbol, datetime, open, close) ==
    [type |-> "MARKET", symbol |-> symbol, datetime |-> datetime,
     open |-> open, close |-> close]

SignalEvent(symbol, strength) ==
    [type |-> "SIGNAL", symbol |-> symbol, strength |-> strength]

OrderEvent(symbol, order_type, quantity) ==
    [type |-> "ORDER", symbol |-> symbol, order_type |-> order_type,
     quantity |-> quantity]

FillEvent(symbol, quantity, fill_cost, commission) ==
    [type |-> "FILL", symbol |-> symbol, quantity |-> quantity,
     fill_cost |-> fill_cost, commission |-> commission]

NoEvent == [type |-> "NONE"]

\* the appends of evs to the queue, as the history records them: who
\* appended, the number of the dispatch that caused it (0: the feed) and the
\* tick it happened in
Enq(evs, by, t) ==
    [i \in 1..Len(evs) |->
        [ev |-> evs[i], by |-> by, cause |-> Len(dispatched), tick |-> t]]

\* -------------------------------------------------------------------- Init
Position == [quantity |-> 0, average_cost |-> RatInt(0), market_price |-> 0]

\* the components Backtester.__init__ hands the shared queue to
Components == {"data_handler", "strategy", "portfolio", "execution_handler"}

\* no earlier run
NoRun == [ticks |-> -1]

\* SimpleMomentumStrategy.__init__: k placeholder signals per ticker
FreshPendingSignals ==
    [t \in subscribed |-> [i \in 1..k |-> SignalEvent("", RatInt(0))]]

\* the state the constructors of the four components leave, the momentum
\* strategy constructed for one of the ticker lists given
ConstructedFor(lists) ==
    /\ pc = "for"
    /\ tick = 0
    /\ \/ /\ strategy = "random"
          /\ \E run \in RandomRuns :
                tickers = run.tickers /\ subscribed = run.subscribed
          /\ j = 0
          /\ k = 0
       \/ /\ strategy = "momentum"
          /\ tickers \in lists
          /\ subscribed = Range(tickers)
          /\ j \in 1..MaxJ
          /\ k \in 1..MaxK
    /\ event_queue = <<>>
    /\ event = NoEvent
    /\ tickers_history = [t \in subscribed |-> <<>>]
    /\ current_datetime = 0
    /\ current_period = 0
    /\ pending_signals = FreshPendingSignals
    /\ market_history = <<>>
    /\ pending = <<>>
    /\ cash = InitialCash
    /\ current_position = <<>>
    /\ position_history = <<>>
    /\ asset_history = <<>>
    /\ enqueued = <<>>
    /\ dispatched = <<>>
    /\ calls = <<>>
    /\ pending_src = <<>>
    /\ fill_log = <<>>
    /\ pending_sched = [t \in subscribed |-> [i \in 1..k |-> 0]]
    /\ exit_log = <<>>
    /\ replay = NoRun

Constructed == ConstructedFor(MomentumTickerLists)

\* the constructors, then Backtester.__init__: every component is attached
Init ==
    /\ Constructed
    /\ attached = Components

\* ------------------------------------------------------------- DataHandler
\* DataHandler.__next__: one MarketEvent per ticker, in the order of
\* self.tickers, all with the row's datetime, appended as a unit
\* with the next row one of rows and the feed max rows long; the row is
\* consumed before the queue is looked at, so without a queue the row is lost
DataHandlerNextFrom(rows, max) ==
    /\ pc = "for"
    /\ tick < max
    /\ \E row \in rows :
         LET events == [i \in 1..Len(tickers) |->
                          MarketEvent(tickers[i], tick + 1,
                                      row[tickers[i]].open,
                                      row[tickers[i]].close)]
         IN  IF "data_handler" \in attached
             THEN /\ event_queue' = event_queue \o events
                  /\ enqueued' = enqueued
                                   \o Enq(events, "data_handler", tick + 1)
                  /\ pc' = "while"
             ELSE /\ pc' = "error"
                  /\ UNCHANGED <<event_queue, enqueued>>
    /\ tick' = tick + 1
    /\ UNCHANGED <<tickers, subscribed, attached, strategy, j, k, event, tickers_history,
                   current_datetime, current_period, pending_signals,
                   market_history, pending, cash, current_position,
                   position_history, asset_history, dispatched, calls,
                   pending_src, fill_log,
                   pending_sched, exit_log, replay>>

\* the rows a feed may yield
Rows ==
    {row \in [Range(tickers) -> Bars] :
        \A t \in Range(tickers) \ subscribed : row[t] \in UnsubscribedBars}

\* a feed of MaxTicks rows
DataHandlerNext == DataHandlerNextFrom(Rows, MaxTicks)

\* next(self._iter) raises StopIteration: the for loop of run ends
StopIteration ==
    /\ pc = "for"
    /\ pc' = "done"
    /\ UNCHANGED <<tick, tickers, subscribed, attached, strategy, j, k, event_queue, event,
                   tickers_history, current_datetime, current_period,
                   pending_signals, market_history, pending, cash,
                   current_position, position_history, asset_history,
                   histVars>>

\* -------------------------------------------------------------- Backtester
\* mutant: a MarketEvent is handed to the execution handler first
FirstHandlerSkipsStrategy(ev) ==
    CASE ev.type = "MARKET" -> "execution_handler.on_market_event"
      [] ev.type = "SIGNAL" -> "portfolio.on_signal_event"
      [] ev.type = "ORDER"  -> "execution_handler.execute_order"
      [] ev.type = "FILL"   -> "portfolio.on_fill_event"
      [] OTHER              -> "error"

\* mutant: an event of no known class is skipped
FirstHandlerIgnoresUnknown(ev) ==
    CASE ev.type = "MARKET" -> "strategy.on_market_event"
      [] ev.type = "SIGNAL" -> "portfolio.on_signal_event"
      [] ev.type = "ORDER"  -> "execution_handler.execute_order"
      [] ev.type = "FILL"   -> "portfolio.on_fill_event"
      [] OTHER              -> "while"

\* the handler run's match statement calls first for an event; "case _"
\* raises
FirstHandler(ev) ==
    CASE ev.type = "MARKET" -> "strategy.on_market_event"
      [] ev.type = "SIGNAL" -> "portfolio.on_signal_event"
      [] ev.type = "ORDER"  -> "execution_handler.execute_order"
      [] ev.type = "FILL"   -> "portfolio.on_fill_event"
      [] OTHER              -> "error"

\* mutant: deque.pop, the event is taken from the right end
DequePop(q) == [event |-> q[Len(q)], rest |-> SubSeq(q, 1, Len(q) - 1)]

\* deque.popleft: the event removed and the queue left
DequePopleft(q) == [event |-> Head(q), rest |-> Tail(q)]

\* while self.event_queue: event = self.event_queue.popleft(); match event
Popleft ==
    /\ pc = "while"
    /\ event_queue # <<>>
    /\ event' = DequePopleft(event_queue).event
    /\ event_queue' = DequePopleft(event_queue).rest
    /\ dispatched' = Append(dispatched, event')
    /\ pc' = FirstHandler(event')
    /\ UNCHANGED <<tick, tickers, subscribed, attached, strategy, j, k, tickers_history,
                   current_datetime, current_period, pending_signals,
                   market_history, pending, cash, current_position,
                   position_history, asset_history, enqueued, calls,
                   pending_src, fill_log,
                   pending_sched, exit_log, replay>>

\* mutant: "if" for "while", the loop is left with events still queued
WhileExitEarly ==
    /\ pc = "while"
    /\ pc' = "for"
    /\ UNCHANGED <<tick, tickers, subscribed, attached, strategy, j, k, event_queue, event,
                   tickers_history, current_datetime, current_period,
                   pending_signals, market_history, pending, cash,
                   current_position, position_history, asset_history,
                   histVars>>

\* while self.event_queue: the queue is empty, back to the for loop
WhileExit ==
    /\ pc = "while"
    /\ event_queue = <<>>
    /\ pc' = "for"
    /\ UNCHANGED <<tick, tickers, subscribed, attached, strategy, j, k, event_queue, event,
                   tickers_history, current_datetime, current_period,
                   pending_signals, market_history, pending, cash,
                   current_position, position_history, asset_history,
                   histVars>>

\* a handler call, as the history records it
Call(handler) == [handler |-> handler, ev |-> event, no |-> Len(dispatched)]

\* ---------------------------------------------------------- RandomStrategy
\* Strategy.on_market_event with RandomStrategy.generate_signal: one signal
\* for the event's symbol, of any strength random.uniform can return
RandomOnMarketEvent ==
    /\ pc = "strategy.on_market_event"
    /\ strategy = "random"
    /\ IF "strategy" \notin attached
       THEN /\ pc' = "error"
            /\ UNCHANGED <<event_queue, enqueued>>
       ELSE /\ pc' = "execution_handler.on_market_event"
            /\ IF event.symbol \in subscribed
               THEN \E strength \in RandomStrengths :
                      LET sig == <<SignalEvent(event.symbol, strength)>>
                      IN  /\ event_queue' = event_queue \o sig
                          /\ enqueued' = enqueued \o Enq(sig, "strategy", tick)
               ELSE UNCHANGED <<event_queue, enqueued>>
    /\ calls' = Append(calls, Call("strategy.on_market_event"))
    /\ UNCHANGED <<tick, tickers, subscribed, attached, strategy, j, k, event, tickers_history,
                   current_datetime, current_period, pending_signals,
                   market_history, pending, cash, current_position,
                   position_history, asset_history, dispatched,
                   pending_src, fill_log,
                   pending_sched, exit_log, replay>>

\* -------------------------------------------------- SimpleMomentumStrategy
RatAdd(a, b) == Rat(a.num * b.den + b.num * a.den, a.den * b.den)
RatSub(a, b) == Rat(a.num * b.den - b.num * a.den, a.den * b.den)
RatMul(a, b) == Rat(a.num * b.num, a.den * b.den)

\* history[-1].close / history[0].close - 1
TickerReturn(history) ==
    Rat(history[Len(history)].close - history[1].close, history[1].close)

\* the element of rank i (0-based) of the returns rs in ascending order
KthSmallest(rs, i) ==
    CHOOSE x \in Range(rs) :
        /\ Cardinality({m \in 1..Len(rs) : RatLt(rs[m], x)}) <= i
        /\ Cardinality({m \in 1..Len(rs) : RatLeq(rs[m], x)}) > i

\* np.percentile(rs, q), linear interpolation between the two nearest ranks
Percentile(rs, q) ==
    LET n    == Len(rs)
        lo   == ((n - 1) * q) \div 100
        hi   == IF lo + 1 <= n - 1 THEN lo + 1 ELSE n - 1
        frac == Rat((n - 1) * q - 100 * lo, 100)
        a    == KthSmallest(rs, lo)
        b    == KthSmallest(rs, hi)
    IN  RatAdd(a, RatMul(RatSub(b, a), frac))

\* mutant: the long leg is tested first
LegLongFirst(r, short_leg, long_leg) ==
    IF RatLeq(long_leg, r) THEN 1
    ELSE IF RatLeq(r, short_leg) THEN -1
    ELSE 0

\* the leg a ticker with return r is entered on: -1 short, 1 long, 0 none
Leg(r, short_leg, long_leg) ==
    IF RatLeq(r, short_leg) THEN -1
    ELSE IF RatLeq(long_leg, r) THEN 1
    ELSE 0

\* the legs of the tickers with returns rs: the two percentiles are computed
\* once (short_leg, long_leg), then every return is compared with them
LegsOf(rs) ==
    CHOOSE legs \in
        {[i \in 1..Len(rs) |-> Leg(rs[i], short_leg, long_leg)] :
            short_leg \in {Percentile(rs, ShortPercentile)},
            long_leg  \in {Percentile(rs, LongPercentile)}} : TRUE

\* the legs of all tickers, in the order of sorted(self.tickers), which for
\* the momentum strategy is the order of the DataHandler's list
Legs(history) ==
    CHOOSE legs \in
        {LegsOf(rs) : rs \in {[i \in 1..Len(tickers) |->
                                  TickerReturn(history[tickers[i]])]}} : TRUE

\* the entry signals appended to the queue by the loop over tickers_returns
RECURSIVE EntrySignals(_, _)
EntrySignals(legs, i) ==
    IF i > Len(legs) THEN <<>>
    ELSE (IF legs[i] = 0 THEN <<>>
          ELSE <<SignalEvent(tickers[i], RatInt(legs[i]))>>)
         \o EntrySignals(legs, i + 1)

\* pending_signals after the same loop: the offsetting exit of every entry
\* appended to the ticker's deque(maxlen=k)
ScheduleExits(ps, legs) ==
    [t \in DOMAIN ps |->
        LET i == CHOOSE m \in 1..Len(tickers) : tickers[m] = t
        IN  IF legs[i] = 0 THEN ps[t]
            ELSE DequeAppend(ps[t], SignalEvent(t, RatInt(-legs[i])), k)]

\* mutant: the pending signal is emitted but stays in the deque
PopPendingPeek(q) == q

\* the deque of a ticker after "if self.pending_signals[...]: ...popleft()"
PopPending(q) == IF q # <<>> THEN Tail(q) ELSE q

Reverse(s) == [i \in 1..Len(s) |-> s[Len(s) + 1 - i]]

\* mutant: the loop visits the set self.tickers, in either order
EntryOrdersUnsorted(legs) ==
    {EntrySignals(legs, 1), Reverse(EntrySignals(legs, 1))}

\* the orders in which the entry signals may be appended: the loop visits
\* sorted(self.tickers), so there is one
EntryOrders(legs) == {EntrySignals(legs, 1)}

\* history: the ticks the pending signals were scheduled in, after the loop
ScheduleTicks(sc, legs) ==
    [t \in DOMAIN sc |->
        LET i == CHOOSE m \in 1..Len(tickers) : tickers[m] = t
        IN  IF legs[i] = 0 THEN sc[t] ELSE DequeAppend(sc[t], tick, k)]

\* history: the pending signal a call emitted, if any
Exit(sym) ==
    IF pending_signals[sym] = <<>> THEN <<>>
    ELSE <<[ev     |-> Head(pending_signals[sym]),
            ticker |-> sym,
            sched  |-> Head(pending_sched[sym]),
            tick   |-> tick,
            at     |-> Len(enqueued) + 1]>>

\* Strategy.on_market_event with SimpleMomentumStrategy.generate_signal
MomentumOnMarketEvent ==
    /\ pc = "strategy.on_market_event"
    /\ strategy = "momentum"
    /\ calls' = Append(calls, Call("strategy.on_market_event"))
    /\ IF "strategy" \notin attached
       THEN /\ pc' = "error"
            /\ UNCHANGED <<event_queue, enqueued, current_period,
                           pending_signals, tickers_history, current_datetime,
                           pending_sched, exit_log>>
       ELSE IF event.symbol \in subscribed
       THEN LET sym      == event.symbol
                exits    == IF pending_signals[sym] # <<>>
                            THEN <<Head(pending_signals[sym])>> ELSE <<>>
                ps1      == [pending_signals EXCEPT ![sym] = PopPending(@)]
                new_dt   == event.datetime # current_datetime
                period   == IF new_dt THEN current_period + 1
                            ELSE current_period
                ranking  == new_dt /\ period >= j
                \* history[-1] of an empty deque raises IndexError
                raises   == ranking /\ \E t \in subscribed :
                                          tickers_history[t] = <<>>
                sc1      == [pending_sched EXCEPT ![sym] = PopPending(@)]
            IN  /\ current_period' = period
                /\ exit_log' = exit_log \o Exit(sym)
                /\ IF raises
                   THEN /\ event_queue' = event_queue \o exits
                        /\ enqueued' = enqueued \o Enq(exits, "strategy", tick)
                        /\ pending_signals' = ps1
                        /\ pending_sched' = sc1
                        /\ pc' = "error"
                        /\ UNCHANGED <<tickers_history, current_datetime>>
                   ELSE /\ \E legs \in IF ranking THEN {Legs(tickers_history)}
                                        ELSE {<<>>} :
                             /\ \E entries \in IF ranking THEN EntryOrders(legs)
                                                ELSE {<<>>} :
                                  /\ event_queue' = event_queue \o exits \o entries
                                  /\ enqueued' = enqueued
                                        \o Enq(exits \o entries, "strategy", tick)
                             /\ pending_signals' =
                                   IF ranking THEN ScheduleExits(ps1, legs) ELSE ps1
                             /\ pending_sched' =
                                   IF ranking THEN ScheduleTicks(sc1, legs) ELSE sc1
                        /\ tickers_history' =
                              [tickers_history EXCEPT
                                 ![sym] = DequeAppend(@, event, j)]
                        /\ current_datetime' = event.datetime
                        /\ pc' = "execution_handler.on_market_event"
       ELSE /\ pc' = "execution_handler.on_market_event"
            /\ UNCHANGED <<event_queue, enqueued, current_period,
                           pending_signals, tickers_history, current_datetime,
                           pending_sched, exit_log>>
    /\ UNCHANGED <<tick, tickers, subscribed, attached, strategy, j, k, event,
                   market_history, pending, cash, current_position,
                   position_history, asset_history, dispatched, pending_src,
                   fill_log, replay>>

\* -------------------------------------------------------- ExecutionHandler
\* mutant: list.pop(0), the oldest element is taken
ListPopFirst(l) == [item |-> Head(l), rest |-> Tail(l)]

\* list.pop(): the last element removed and the list left
ListPop(l) == [item |-> l[Len(l)], rest |-> SubSeq(l, 1, Len(l) - 1)]

\* ExecutionHandler.on_market_event: record the event, then resolve the last
\* pending fill, if any, at the event's open
ExecutionHandlerOnMarketEvent ==
    /\ pc = "execution_handler.on_market_event"
    /\ market_history' = DequeAppend(market_history, event, MarketHistoryMaxLen)
    /\ IF pending # <<>> /\ "execution_handler" \notin attached
       THEN /\ pc' = "error"
            /\ UNCHANGED <<pending, event_queue, enqueued, pending_src,
                           fill_log>>
       ELSE /\ pc' = "portfolio.on_market_event"
            /\ IF pending # <<>>
               THEN LET popped     == ListPop(pending).item
                        src        == ListPop(pending_src).item
                        fill_event ==
                            [popped EXCEPT
                               !.fill_cost = popped.quantity * event.open]
                    IN  /\ pending' = ListPop(pending).rest
                        /\ event_queue' = Append(event_queue, fill_event)
                        /\ enqueued' = enqueued
                              \o Enq(<<fill_event>>, "execution_handler", tick)
                        /\ pending_src' = ListPop(pending_src).rest
                        /\ fill_log' = Append(fill_log,
                              [fill       |-> fill_event,
                               order_no   |-> src.order_no,
                               order_tick |-> src.tick,
                               market_no  |-> Len(dispatched),
                               tick       |-> tick])
               ELSE UNCHANGED <<pending, event_queue, enqueued, pending_src,
                                fill_log>>
    /\ calls' = Append(calls, Call("execution_handler.on_market_event"))
    /\ UNCHANGED <<tick, tickers, subscribed, attached, strategy, j, k, event, tickers_history,
                   current_datetime, current_period, pending_signals, cash,
                   current_position, position_history, asset_history,
                   dispatched,
                   pending_sched, exit_log, replay>>

\* ExecutionHandler.execute_order: a pending fill with the provisional cost
\* quantity * market_history[-1].open (RuntimeError without a queue,
\* IndexError on an empty history)
ExecutionHandlerExecuteOrder ==
    /\ pc = "execution_handler.execute_order"
    /\ calls' = Append(calls, Call("execution_handler.execute_order"))
    /\ IF "execution_handler" \notin attached \/ market_history = <<>>
       THEN /\ pc' = "error"
            /\ UNCHANGED <<pending, pending_src>>
       ELSE /\ pending' = Append(pending,
                   FillEvent(event.symbol, event.quantity,
                             event.quantity
                               * market_history[Len(market_history)].open,
                             0))
            /\ pending_src' = Append(pending_src,
                   [order_no |-> Len(dispatched), tick |-> tick])
            /\ pc' = "while"
    /\ UNCHANGED <<tick, tickers, subscribed, attached, strategy, j, k, event_queue, event,
                   tickers_history, current_datetime, current_period,
                   pending_signals, market_history, cash, current_position,
                   position_history, asset_history, enqueued, dispatched,
                   fill_log,
                   pending_sched, exit_log, replay>>

\* ---------------------------------------------------------------- Position
\* mutant: the average cost is not reset when the quantity returns to 0
PositionOnFillEventNoReset(p, ev) ==
    LET new_quantity == p.quantity + ev.quantity
    IN  IF new_quantity = 0
        THEN [p EXCEPT !.quantity = 0]
        ELSE [p EXCEPT
                !.average_cost =
                    Rat(p.average_cost.num * p.quantity
                          + ev.fill_cost * p.average_cost.den,
                        p.average_cost.den * new_quantity),
                !.quantity = new_quantity]

\* Position.on_fill_event
PositionOnFillEvent(p, ev) ==
    LET new_quantity == p.quantity + ev.quantity
    IN  IF new_quantity = 0
        THEN [p EXCEPT !.quantity = 0, !.average_cost = RatInt(0)]
        ELSE [p EXCEPT
                !.average_cost =
                    Rat(p.average_cost.num * p.quantity
                          + ev.fill_cost * p.average_cost.den,
                        p.average_cost.den * new_quantity),
                !.quantity = new_quantity]

\* mutant: the position is marked at the open
PositionOnMarketEventOpen(p, ev) == [p EXCEPT !.market_price = ev.open]

\* Position.on_market_event
PositionOnMarketEvent(p, ev) == [p EXCEPT !.market_price = ev.close]

\* --------------------------------------------------------------- Portfolio
\* current_position[symbol] of a defaultdict(Position): a missing key is
\* inserted with a fresh Position
Touch(cp, symbol) ==
    IF symbol \in DOMAIN cp THEN cp ELSE cp @@ (symbol :> Position)

\* mutant: only the position of the event's symbol is valued
HoldingEventOnly(cp, S) ==
    IF event.symbol \in S
    THEN cp[event.symbol].quantity * cp[event.symbol].market_price
    ELSE 0

\* sum of quantity * market_price over the positions of the symbols in S
RECURSIVE Holding(_, _)
Holding(cp, S) ==
    IF S = {} THEN 0
    ELSE LET s == CHOOSE x \in S : TRUE
         IN  cp[s].quantity * cp[s].market_price + Holding(cp, S \ {s})

\* asdict(position) with the datetime added
AssetSnapshot(p, datetime) ==
    [quantity |-> p.quantity, average_cost |-> p.average_cost,
     market_price |-> p.market_price, datetime |-> datetime]

\* mutant: the Position itself is appended, so every element of the list is
\* the same object and shows its present fields
AppendSnapshotByReference(history, p, datetime) ==
    [i \in 1..(Len(history) + 1) |-> AssetSnapshot(p, datetime)]

\* self._asset_history[symbol].append(asset_snapshot): the snapshot is a new
\* dict, the earlier ones are not touched
AppendSnapshot(history, p, datetime) ==
    Append(history, AssetSnapshot(p, datetime))

\* mutant: only the event's symbol gets an asset-level snapshot
SnapshotSymbolsEventOnly(cp, ev) == {ev.symbol}

\* the symbols on_market_event appends an asset-level snapshot for
SnapshotSymbols(cp, ev) == DOMAIN cp

\* Portfolio.on_market_event
PortfolioOnMarketEvent ==
    /\ pc = "portfolio.on_market_event"
    /\ LET cp      == [Touch(current_position, event.symbol) EXCEPT
                         ![event.symbol] = PositionOnMarketEvent(@, event)]
           holding == Holding(cp, DOMAIN cp)
           symbols == SnapshotSymbols(cp, event)
       IN  /\ current_position' = cp
           /\ asset_history' =
                [s \in DOMAIN asset_history \cup symbols |->
                    LET history == IF s \in DOMAIN asset_history
                                   THEN asset_history[s] ELSE <<>>
                    IN  IF s \in symbols
                        THEN AppendSnapshot(history, cp[s], event.datetime)
                        ELSE history]
           /\ position_history' = Append(position_history,
                [datetime |-> event.datetime, cash |-> cash,
                 holding |-> holding, equity |-> holding + cash])
    /\ calls' = Append(calls, Call("portfolio.on_market_event"))
    /\ pc' = "while"
    /\ UNCHANGED <<tick, tickers, subscribed, attached, strategy, j, k, event_queue, event,
                   tickers_history, current_datetime, current_period,
                   pending_signals, market_history, pending, cash, enqueued,
                   dispatched, pending_src, fill_log,
                   pending_sched, exit_log, replay>>

\* mutant: a signal too weak for one unit gets no order
SignalOrdersSkipZero(ev) ==
    LET quantity == IntTrunc(SizingConstant * ev.strength.num, ev.strength.den)
    IN  IF quantity = 0 THEN <<>>
        ELSE <<OrderEvent(ev.symbol, "MARKET", quantity)>>

\* the orders on_signal_event appends for a signal: one market order of
\* int(10 * strength) units
SignalOrders(ev) ==
    <<OrderEvent(ev.symbol, "MARKET",
                 IntTrunc(SizingConstant * ev.strength.num, ev.strength.den))>>

\* Portfolio.on_signal_event
PortfolioOnSignalEvent ==
    /\ pc = "portfolio.on_signal_event"
    /\ IF "portfolio" \notin attached
       THEN /\ pc' = "error"
            /\ UNCHANGED <<event_queue, enqueued>>
       ELSE /\ event_queue' = event_queue \o SignalOrders(event)
            /\ enqueued' = enqueued
                             \o Enq(SignalOrders(event), "portfolio", tick)
            /\ pc' = "while"
    /\ calls' = Append(calls, Call("portfolio.on_signal_event"))
    /\ UNCHANGED <<tick, tickers, subscribed, attached, strategy, j, k, event, tickers_history,
                   current_datetime, current_period, pending_signals,
                   market_history, pending, cash, current_position,
                   position_history, asset_history, dispatched, pending_src,
                   fill_log,
                   pending_sched, exit_log, replay>>

\* mutant: a sale is debited like a purchase
CashAfterFillAbs(c, ev) == c - Abs(ev.fill_cost)

\* self.cash -= event.fill_cost
CashAfterFill(c, ev) == c - ev.fill_cost

\* mutant: the fill handled is appended to the queue again
PortfolioOnFillEventRequeue ==
    /\ pc = "portfolio.on_fill_event"
    /\ current_position' =
         [Touch(current_position, event.symbol) EXCEPT
            ![event.symbol] = PositionOnFillEvent(@, event)]
    /\ cash' = CashAfterFill(cash, event)
    /\ calls' = Append(calls, Call("portfolio.on_fill_event"))
    /\ event_queue' = Append(event_queue, event)
    /\ enqueued' = enqueued \o Enq(<<event>>, "portfolio", tick)
    /\ pc' = "while"
    /\ UNCHANGED <<tick, tickers, subscribed, attached, strategy, j, k, event,
                   tickers_history, current_datetime, current_period,
                   pending_signals, market_history, pending,
                   position_history, asset_history, dispatched,
                   pending_src, fill_log,
                   pending_sched, exit_log, replay>>

\* Portfolio.on_fill_event
PortfolioOnFillEvent ==
    /\ pc = "portfolio.on_fill_event"
    /\ current_position' =
         [Touch(current_position, event.symbol) EXCEPT
            ![event.symbol] = PositionOnFillEvent(@, event)]
    /\ cash' = CashAfterFill(cash, event)
    /\ calls' = Append(calls, Call("portfolio.on_fill_event"))
    /\ pc' = "while"
    /\ UNCHANGED <<tick, tickers, subscribed, attached, strategy, j, k, event_queue, event,
                   tickers_history, current_datetime, current_period,
                   pending_signals, market_history, pending,
                   position_history, asset_history, enqueued, dispatched,
                   pending_src, fill_log,
                   pending_sched, exit_log, replay>>

\* ------------------------------------------------------------ specification
Next ==
    \/ DataHandlerNext
    \/ StopIteration
    \/ Popleft
    \/ WhileExit
    \/ RandomOnMarketEvent
    \/ MomentumOnMarketEvent
    \/ ExecutionHandlerOnMarketEvent
    \/ ExecutionHandlerExecuteOrder
    \/ PortfolioOnMarketEvent
    \/ PortfolioOnSignalEvent
    \/ PortfolioOnFillEvent

Spec == Init /\ [][Next]_vars

\* the positions of the thread that executes run
Locations ==
    {"for", "while", "strategy.on_market_event",
     "execution_handler.on_market_event", "portfolio.on_market_event",
     "portfolio.on_signal_event", "execution_handler.execute_order",
     "portfolio.on_fill_event", "done", "error"}

\* run has neither returned nor raised
Running == pc \notin {"done", "error"}

\* the thread moves on from the statement it is at
Advance == Running /\ pc' \in Locations \ {pc}

\* Backtester.run as the interpreter executes it: one thread, which does not
\* stay at a statement for ever while run has neither returned nor raised
SpecRun == Init /\ [][Next]_vars /\ WF_pc(Advance)

\* ------------------------------------------------- a three-ticker universe
\* the momentum strategy over one ticker or three, the smallest universe in
\* which a ticker can rank strictly between the two legs
RankingTickerLists == {<<"A">>, <<"A", "B", "C">>}

InitRanking ==
    /\ ConstructedFor(RankingTickerLists)
    /\ attached = Components
    /\ strategy = "momentum"
    /\ j = 2
    /\ k = 1

RankingDataHandlerNext == DataHandlerNextFrom(Rows, RankingTicks)

NextRanking ==
    \/ RankingDataHandlerNext
    \/ StopIteration
    \/ Popleft
    \/ WhileExit
    \/ MomentumOnMarketEvent
    \/ ExecutionHandlerOnMarketEvent
    \/ ExecutionHandlerExecuteOrder
    \/ PortfolioOnMarketEvent
    \/ PortfolioOnSignalEvent
    \/ PortfolioOnFillEvent

SpecRanking == InitRanking /\ [][NextRanking]_vars

\* ------------------------------------------ components used on their own
\* the four components constructed for one ticker and driven by the loop of
\* run, with the shared queue handed to any of them, or to none
InitStandalone ==
    /\ Constructed
    /\ attached \in SUBSET Components
    /\ Len(tickers) = 1

SpecStandalone == InitStandalone /\ [][Next]_vars

\* ------------------------------------------- an event of no known class
\* an instance of the base class Event, which none of the four cases matches
UnknownEvent == [type |-> "OTHER", symbol |-> "A"]

\* between two dispatches something else holding the shared queue appends an
\* event of no known class, once in a run
AppendUnknown ==
    /\ pc = "while"
    /\ \A i \in 1..Len(enqueued) : enqueued[i].ev # UnknownEvent
    /\ event_queue' = Append(event_queue, UnknownEvent)
    /\ enqueued' = enqueued \o Enq(<<UnknownEvent>>, "other", tick)
    /\ UNCHANGED <<pc, tick, tickers, subscribed, attached, strategy, j, k,
                   event, tickers_history, current_datetime, current_period,
                   pending_signals, market_history, pending, cash,
                   current_position, position_history, asset_history,
                   dispatched, calls, pending_src, fill_log, pending_sched,
                   exit_log, replay>>

InitUnknown ==
    /\ Init
    /\ strategy = "random"
    /\ tickers = <<"A">>

NextUnknown ==
    \/ DataHandlerNext
    \/ StopIteration
    \/ Popleft
    \/ WhileExit
    \/ RandomOnMarketEvent
    \/ ExecutionHandlerOnMarketEvent
    \/ ExecutionHandlerExecuteOrder
    \/ PortfolioOnMarketEvent
    \/ PortfolioOnSignalEvent
    \/ PortfolioOnFillEvent
    \/ AppendUnknown

SpecUnknown == InitUnknown /\ [][NextUnknown]_vars

\* ------------------------------------------------------- a run and a rerun
\* the rows the feed has yielded, read off the history of appends
RowsFed ==
    [t \in 1..tick |->
        [s \in Range(tickers) |->
            LET i == CHOOSE n \in 1..Len(enqueued) :
                        /\ enqueued[n].by = "data_handler"
                        /\ enqueued[n].ev.symbol = s
                        /\ enqueued[n].ev.datetime = t
            IN  [open |-> enqueued[i].ev.open, close |-> enqueued[i].ev.close]]]

\* the run is over: what it was fed and what it did is kept, and the five
\* objects are constructed afresh, with the same arguments
Restart ==
    /\ pc \in {"done", "error"}
    /\ replay.ticks = -1
    /\ replay' = [ticks            |-> tick,
                  rows             |-> RowsFed,
                  pc               |-> pc,
                  dispatched       |-> dispatched,
                  position_history |-> position_history,
                  asset_history    |-> asset_history]
    /\ pc' = "for"
    /\ tick' = 0
    /\ event_queue' = <<>>
    /\ event' = NoEvent
    /\ tickers_history' = [t \in subscribed |-> <<>>]
    /\ current_datetime' = 0
    /\ current_period' = 0
    /\ pending_signals' = FreshPendingSignals
    /\ market_history' = <<>>
    /\ pending' = <<>>
    /\ cash' = InitialCash
    /\ current_position' = <<>>
    /\ position_history' = <<>>
    /\ asset_history' = <<>>
    /\ enqueued' = <<>>
    /\ dispatched' = <<>>
    /\ calls' = <<>>
    /\ pending_src' = <<>>
    /\ fill_log' = <<>>
    /\ pending_sched' = [t \in subscribed |-> [i \in 1..k |-> 0]]
    /\ exit_log' = <<>>
    /\ UNCHANGED <<tickers, subscribed, attached, strategy, j, k>>

\* the feed of the rerun yields the rows of the run
ReplayDataHandlerNext ==
    DataHandlerNextFrom(IF replay.ticks = -1 THEN Rows
                        ELSE {replay.rows[tick + 1]},
                        IF replay.ticks = -1 THEN MaxTicks ELSE replay.ticks)

ReplayStopIteration ==
    /\ replay.ticks # -1 => tick = replay.ticks
    /\ StopIteration

InitReplay ==
    /\ Init
    /\ strategy = "momentum"

NextReplay ==
    \/ ReplayDataHandlerNext
    \/ ReplayStopIteration
    \/ Popleft
    \/ WhileExit
    \/ MomentumOnMarketEvent
    \/ ExecutionHandlerOnMarketEvent
    \/ ExecutionHandlerExecuteOrder
    \/ PortfolioOnMarketEvent
    \/ PortfolioOnSignalEvent
    \/ PortfolioOnFillEvent
    \/ Restart

SpecReplay == InitReplay /\ [][NextReplay]_vars

\* ------------------------------------------------- the two-symbol scenario
\* symbols A and B under SimpleMomentumStrategy(j=2, k=1); A closes 10, 12
\* and B closes 10, 9 on ticks 1 and 2, later bars are free
ScenarioLaterBars == {[open |-> 11, close |-> 12], [open |-> 13, close |-> 9]}

ScenarioRows(t) ==
    IF t = 1
    THEN {[s \in {"A", "B"} |-> [open |-> 10, close |-> 10]]}
    ELSE IF t = 2
    THEN {[s \in {"A", "B"} |->
             [open |-> 10, close |-> IF s = "A" THEN 12 ELSE 9]]}
    ELSE [{"A", "B"} -> ScenarioLaterBars]

InitScenario ==
    /\ Init
    /\ strategy = "momentum"
    /\ tickers = <<"A", "B">>
    /\ j = 2
    /\ k = 1

ScenarioDataHandlerNext ==
    DataHandlerNextFrom(ScenarioRows(tick + 1), ScenarioTicks)

NextScenario ==
    \/ ScenarioDataHandlerNext
    \/ StopIteration
    \/ Popleft
    \/ WhileExit
    \/ MomentumOnMarketEvent
    \/ ExecutionHandlerOnMarketEvent
    \/ ExecutionHandlerExecuteOrder
    \/ PortfolioOnMarketEvent
    \/ PortfolioOnSignalEvent
    \/ PortfolioOnFillEvent

SpecScenario == InitScenario /\ [][NextScenario]_vars

\* ------------------------------------------------------------------ claims
Last(s) == s[Len(s)]

\* the events of a history of appends
Events(log) == [i \in 1..Len(log) |-> log[i].ev]

\* run is between two dispatches, or over
Idle == pc \in {"for", "while", "done"}

\* the handler h has just returned for the event dispatched last
JustCompleted(h) ==
    /\ pc = "while"
    /\ calls # <<>>
    /\ Last(calls).handler = h
    /\ Last(calls).no = Len(dispatched)

\* the events the handler h has been called with, in order
RECURSIVE CalledWith(_, _)
CalledWith(h, n) ==
    IF n = 0 THEN <<>>
    ELSE CalledWith(h, n - 1)
         \o (IF calls[n].handler = h THEN <<calls[n].ev>> ELSE <<>>)

\* the fills applied to the portfolio so far
AppliedFills == CalledWith("portfolio.on_fill_event", Len(calls))

\* the market value of all positions, summed symbol by symbol
RECURSIVE MarkToMarket(_, _)
MarkToMarket(cp, S) ==
    IF S = {} THEN 0
    ELSE LET s == CHOOSE x \in S : TRUE
         IN  MarkToMarket(cp, S \ {s}) + cp[s].market_price * cp[s].quantity

\* C1: when Portfolio.on_market_event has completed, the snapshot it appended
\* has equity = cash + the sum over all positions of quantity * market_price,
\* with the cash, quantities and market prices the portfolio then holds.
C1_EquityInvariant ==
    JustCompleted("portfolio.on_market_event") =>
        /\ position_history # <<>>
        /\ Last(position_history).datetime = event.datetime
        /\ Last(position_history).cash = cash
        /\ Last(position_history).equity =
              cash + MarkToMarket(current_position, DOMAIN current_position)

\* C1 witness: a snapshot taken for one symbol while another symbol has a
\* position of non-zero value, and cash has changed
C1_Witness ==
    /\ JustCompleted("portfolio.on_market_event")
    /\ cash # InitialCash
    /\ Cardinality(DOMAIN current_position) >= 2
    /\ \E s \in DOMAIN current_position :
         /\ s # event.symbol
         /\ current_position[s].quantity * current_position[s].market_price # 0

\* C2: the queue is strict FIFO: the events appended so far, in the order of
\* their appends, are exactly the events dispatched so far, in the order of
\* their dispatch, followed by the events still queued; none is dropped,
\* reordered or dispatched twice, and a run that ends normally has
\* dispatched them all.
C2_Fifo ==
    /\ Events(enqueued) = dispatched \o event_queue
    /\ pc = "done" => dispatched = Events(enqueued)

\* C2 witness: events of all four kinds dispatched, several still queued,
\* appended by all four components
C2_Witness ==
    /\ Len(event_queue) >= 3
    /\ \A ty \in {"MARKET", "SIGNAL", "ORDER", "FILL"} :
         \E i \in 1..Len(dispatched) : dispatched[i].type = ty
    /\ \A by \in {"data_handler", "strategy", "portfolio", "execution_handler"} :
         \E i \in 1..Len(enqueued) : enqueued[i].by = by

\* the handlers run calls for an event, in order
Route(ev) ==
    CASE ev.type = "MARKET" -> <<"strategy.on_market_event",
                                 "execution_handler.on_market_event",
                                 "portfolio.on_market_event">>
      [] ev.type = "SIGNAL" -> <<"portfolio.on_signal_event">>
      [] ev.type = "ORDER"  -> <<"execution_handler.execute_order">>
      [] ev.type = "FILL"   -> <<"portfolio.on_fill_event">>
      [] OTHER              -> <<>>

\* the handler calls the first n dispatched events are to cause
RECURSIVE RoutedCalls(_)
RoutedCalls(n) ==
    IF n = 0 THEN <<>>
    ELSE RoutedCalls(n - 1)
         \o [i \in 1..Len(Route(dispatched[n])) |->
               [handler |-> Route(dispatched[n])[i], ev |-> dispatched[n],
                no |-> n]]

\* C3: every dequeued event is routed by kind, a MarketEvent to the strategy,
\* then the execution handler, then the portfolio, before the next event is
\* dequeued; and a fill produced while a MarketEvent is handled is appended
\* after that MarketEvent and after every signal the strategy emitted for it.
C3_Routing ==
    LET routed == RoutedCalls(Len(dispatched))
    IN  /\ Len(calls) <= Len(routed)
        /\ calls = SubSeq(routed, 1, Len(calls))
        /\ Idle => calls = routed
        /\ pc \notin {"for", "while", "done", "error"} =>
              /\ Len(calls) < Len(routed)
              /\ routed[Len(calls) + 1].handler = pc
              /\ routed[Len(calls) + 1].ev = event
        /\ \A a \in 1..Len(enqueued) :
              enqueued[a].by = "execution_handler" =>
                 /\ enqueued[a].ev.type = "FILL"
                 /\ enqueued[a].cause \in 1..(a - 1)
                 /\ enqueued[enqueued[a].cause].ev.type = "MARKET"
                 /\ dispatched[enqueued[a].cause] = enqueued[enqueued[a].cause].ev
                 /\ \A b \in 1..Len(enqueued) :
                       (enqueued[b].by = "strategy"
                          /\ enqueued[b].cause = enqueued[a].cause) => b < a

\* C3 witness: a MarketEvent for which the strategy emitted a signal and the
\* execution handler a fill, about to be handled by the portfolio
C3_Witness ==
    /\ pc = "portfolio.on_market_event"
    /\ Len(enqueued) >= 2
    /\ Last(enqueued).by = "execution_handler"
    /\ Last(enqueued).cause = Len(dispatched)
    /\ enqueued[Len(enqueued) - 1].by = "strategy"
    /\ enqueued[Len(enqueued) - 1].cause = Len(dispatched)
    /\ \E i \in 1..Len(dispatched) : dispatched[i].type = "FILL"

\* C4: a batch is appended only when every event appended before it has been
\* dispatched, so all events of tick t are dispatched before any MarketEvent
\* of tick t + 1 is appended; and within a tick the MarketEvents are appended,
\* hence dispatched, before every signal, order and fill of that tick.
C4_DrainBeforeNextBatch ==
    /\ pc = "for" => event_queue = <<>>
    /\ \A a \in 1..Len(enqueued) :
          /\ a > 1 => enqueued[a - 1].tick <= enqueued[a].tick
          /\ (enqueued[a].by = "data_handler"
                /\ (a = 1 \/ enqueued[a - 1].tick < enqueued[a].tick))
             => enqueued[a].cause = a - 1
          /\ (a > 1 /\ enqueued[a].ev.type = "MARKET"
                /\ enqueued[a - 1].tick = enqueued[a].tick)
             => enqueued[a - 1].ev.type = "MARKET"
          /\ enqueued[a].ev.type = "MARKET" <=> enqueued[a].by = "data_handler"

\* C4 witness: the third batch has just been appended, after two ticks in
\* which signals, orders and fills were appended and dispatched
C4_Witness ==
    /\ pc = "while"
    /\ tick = 3
    /\ Len(tickers) = 2
    /\ Len(event_queue) = 2
    /\ Last(enqueued).by = "data_handler"
    /\ \E i \in 1..Len(dispatched) :
         dispatched[i].type = "FILL" /\ dispatched[i].quantity # 0

\* C5: every fill the execution handler emits is priced at the open of the
\* first MarketEvent dispatched after its order was handed to execute_order,
\* and never at an open of the tick the order was created in.
C5_FillAtNextMarketEvent ==
    \A i \in 1..Len(fill_log) :
        LET f == fill_log[i]
        IN  /\ \A m \in (f.order_no + 1)..(f.market_no - 1) :
                  dispatched[m].type # "MARKET"
            /\ f.fill.fill_cost = f.fill.quantity * dispatched[f.market_no].open
            /\ dispatched[f.market_no].datetime # f.order_tick

\* C6: an order handed to execute_order during tick t is filled during tick
\* t + 1, at an open of tick t + 1: no fill is emitted in another tick, and
\* when the queue of a tick has been drained no order of an earlier tick is
\* still pending.
C6_OneTickLag ==
    /\ \A i \in 1..Len(fill_log) :
          /\ fill_log[i].tick = fill_log[i].order_tick + 1
          /\ dispatched[fill_log[i].market_no].datetime
                = fill_log[i].order_tick + 1
          /\ fill_log[i].fill.fill_cost
                = fill_log[i].fill.quantity
                    * dispatched[fill_log[i].market_no].open
    /\ pc = "for" =>
          \A i \in 1..Len(pending_src) : pending_src[i].tick = tick

\* the per-unit price of a fill of non-zero quantity
FillPrice(f) == Rat(f.fill_cost, f.quantity)

\* the fills of non-zero quantity applied to the symbol s
PricedFills(s) ==
    {AppliedFills[i] : i \in {m \in 1..Len(AppliedFills) :
        AppliedFills[m].symbol = s /\ AppliedFills[m].quantity # 0}}

\* C7: a position of non-zero quantity has an average cost between the lowest
\* and the highest per-unit price of the fills applied to its symbol.
C7_AverageCostBound ==
    \A s \in DOMAIN current_position :
        current_position[s].quantity # 0 =>
            /\ \E f \in PricedFills(s) :
                  RatLeq(FillPrice(f), current_position[s].average_cost)
            /\ \E f \in PricedFills(s) :
                  RatLeq(current_position[s].average_cost, FillPrice(f))

\* the sum of the field of the fills applied to the symbols in S
RECURSIVE FillSum(_, _, _)
FillSum(fills, S, field) ==
    IF fills = <<>> THEN 0
    ELSE FillSum(Tail(fills), S, field)
         + (IF Head(fills).symbol \in S THEN Head(fills)[field] ELSE 0)

\* the position of a symbol, a fresh one when the symbol has none yet
PositionOf(cp, s) == IF s \in DOMAIN cp THEN cp[s] ELSE Position

C8_ZeroAndSum ==
    \A s \in DOMAIN current_position :
        /\ current_position[s].quantity = 0 =>
              current_position[s].average_cost = RatInt(0)
        /\ current_position[s].quantity =
              FillSum(AppliedFills, {s}, "quantity")

C8_Update ==
    pc = "portfolio.on_fill_event" =>
        LET before == PositionOf(current_position, event.symbol)
            after  == PositionOf(current_position', event.symbol)
        IN  /\ after.quantity = before.quantity + event.quantity
            /\ after.quantity # 0 =>
                  after.average_cost.num * after.quantity * before.average_cost.den
                    = after.average_cost.den
                        * (before.average_cost.num * before.quantity
                             + event.fill_cost * before.average_cost.den)
            /\ after.quantity = 0 => after.average_cost = RatInt(0)

\* C8: on_fill_event adds the fill's quantity to the position's and sets the
\* average cost to (average_cost * quantity_before + fill_cost) /
\* quantity_after, or to 0 when the quantity becomes 0; so a position of
\* quantity 0 has average cost 0, and every quantity is the sum of the
\* quantities of the fills applied to its symbol.
C8_PositionOnFill == [] C8_ZeroAndSum /\ [][C8_Update]_vars

\* C8 witness: a position closed by a fill after it was opened at a cost
C8_Witness ==
    /\ JustCompleted("portfolio.on_fill_event")
    /\ event.quantity # 0
    /\ event.fill_cost # 0
    /\ current_position[event.symbol].quantity = 0
    /\ Cardinality(PricedFills(event.symbol)) >= 2

\* the calls of Portfolio.on_market_event for symbol s, by their number
MarkedAt(s) ==
    {i \in 1..Len(calls) : /\ calls[i].handler = "portfolio.on_market_event"
                           /\ calls[i].ev.symbol = s}

\* the MarketEvents dispatched for symbol s, by their number
DispatchedFor(s) ==
    {i \in 1..Len(dispatched) : /\ dispatched[i].type = "MARKET"
                                /\ dispatched[i].symbol = s}

Max(S) == CHOOSE x \in S : \A y \in S : y <= x

\* C9: the market_price of a symbol is the close of the last MarketEvent the
\* portfolio handled for it, in every state: no MarketEvent of another symbol
\* and no signal or fill changes it (and it is 0 before the first).
C9_MarketPriceIsLastClose ==
    \A s \in DOMAIN current_position \cup Range(tickers) :
        /\ IF MarkedAt(s) = {}
           THEN s \in DOMAIN current_position =>
                   current_position[s].market_price = 0
           ELSE /\ s \in DOMAIN current_position
                /\ current_position[s].market_price
                      = calls[Max(MarkedAt(s))].ev.close
        /\ (JustCompleted("portfolio.on_market_event") /\ DispatchedFor(s) # {})
              => current_position[s].market_price
                    = dispatched[Max(DispatchedFor(s))].close

\* C9 witness: after an on_market_event, two symbols marked at different
\* closes, the other symbol's from an earlier tick, with a fill applied
C9_Witness ==
    /\ JustCompleted("portfolio.on_market_event")
    /\ AppliedFills # <<>>
    /\ \E s \in DOMAIN current_position :
         /\ s # event.symbol
         /\ MarkedAt(s) # {}
         /\ calls[Max(MarkedAt(s))].ev.datetime < event.datetime
         /\ current_position[s].market_price
               # current_position[event.symbol].market_price

C10_CashIsInitialLessFills ==
    cash = InitialCash
             - FillSum(AppliedFills, DOMAIN current_position, "fill_cost")

C10_Frame ==
    pc \in {"portfolio.on_market_event", "portfolio.on_signal_event",
            "strategy.on_market_event", "execution_handler.on_market_event",
            "execution_handler.execute_order"} =>
        /\ cash' = cash
        /\ \A s \in DOMAIN current_position' :
              current_position'[s].quantity
                 = PositionOf(current_position, s).quantity

\* C10: cash changes only in on_fill_event, by exactly the fill's fill_cost:
\* cash is the initial cash less the fill_cost of every fill applied so far,
\* and no other handler changes cash or the quantity of a position.
C10_CashOnlyOnFill == [] C10_CashIsInitialLessFills /\ [][C10_Frame]_vars

\* C10 witness: a purchase and a sale both applied, cash changed
C10_Witness ==
    /\ JustCompleted("portfolio.on_fill_event")
    /\ cash # InitialCash
    /\ \E i, m \in 1..Len(AppliedFills) :
         AppliedFills[i].fill_cost > 0 /\ AppliedFills[m].fill_cost < 0

\* the signal an order was appended for
SignalOf(entry) == dispatched[entry.cause]

\* the orders the portfolio has appended, by their number in the history
PortfolioOrders == {i \in 1..Len(enqueued) : enqueued[i].by = "portfolio"}

\* round(n / d) of Python: to the nearest integer, a tie to the even one
Round(n, d) ==
    LET q == n \div d
        r == n % d
    IN  IF 2 * r < d THEN q
        ELSE IF 2 * r > d THEN q + 1
        ELSE IF q % 2 = 0 THEN q ELSE q + 1

DispatchedOf(type) == {i \in 1..Len(dispatched) : dispatched[i].type = type}

\* C12: the appends that are an order, are made by the portfolio or are
\* caused by a signal are, one for one and in order, the calls of
\* Portfolio.on_signal_event: each call causes exactly one append, of a MARKET
\* order for the signal's symbol, and the portfolio appends nothing else; when
\* the run is over as many orders as signals have been dispatched.
C12_OneOrderPerSignal ==
    LET Ordered(e) == \/ e.by = "portfolio"
                      \/ e.ev.type = "ORDER"
                      \/ (e.cause > 0 /\ dispatched[e.cause].type = "SIGNAL")
        Handled(c) == c.handler = "portfolio.on_signal_event"
        orders  == SelectSeq(enqueued, Ordered)
        signals == SelectSeq(calls, Handled)
    IN  /\ Len(orders) = Len(signals)
        /\ \A m \in 1..Len(orders) :
              /\ orders[m].cause = signals[m].no
              /\ orders[m].by = "portfolio"
              /\ orders[m].ev.type = "ORDER"
              /\ orders[m].ev.order_type = "MARKET"
              /\ orders[m].ev.symbol = signals[m].ev.symbol
        /\ pc = "done" =>
              Cardinality(DispatchedOf("ORDER"))
                 = Cardinality(DispatchedOf("SIGNAL"))

\* C12 witness: a run is over in which three or more signals were dispatched,
\* one of them of strength 0
C12_Witness ==
    /\ pc = "done"
    /\ Cardinality(DispatchedOf("SIGNAL")) >= 3
    /\ \E i \in DispatchedOf("SIGNAL") : dispatched[i].strength = RatInt(0)
    /\ \E i \in DispatchedOf("SIGNAL") : dispatched[i].strength # RatInt(0)

\* the asset-level snapshots of symbol s
AssetHistory(ah, s) == IF s \in DOMAIN ah THEN ah[s] ELSE <<>>

\* C13, in every state: there are as many portfolio-level snapshots as calls
\* of Portfolio.on_market_event, and after the run as many as MarketEvents
\* dispatched, N for each timestamp of a feed of N symbols
C13_Counts ==
    /\ Len(position_history) =
          Cardinality({n \in 1..Len(calls) :
                          calls[n].handler = "portfolio.on_market_event"})
    /\ pc = "done" =>
          /\ Len(position_history) = Cardinality(DispatchedOf("MARKET"))
          /\ \A t \in 1..tick :
                Cardinality({i \in 1..Len(position_history) :
                                position_history[i].datetime = t})
                   = Len(tickers)

\* C13, in every step: a call of Portfolio.on_market_event appends one
\* portfolio-level snapshot {datetime, cash, holding, equity} and, for every
\* symbol then in current_position, one asset-level snapshot of its position;
\* no other step touches the histories
C13_Step ==
    IF pc = "portfolio.on_market_event"
    THEN /\ Len(position_history') = Len(position_history) + 1
         /\ SubSeq(position_history', 1, Len(position_history))
               = position_history
         /\ DOMAIN Last(position_history')
               = {"datetime", "cash", "holding", "equity"}
         /\ Last(position_history').datetime = event.datetime
         /\ DOMAIN asset_history' = DOMAIN current_position'
         /\ \A s \in DOMAIN current_position' :
               asset_history'[s] =
                  Append(AssetHistory(asset_history, s),
                         [quantity     |-> current_position'[s].quantity,
                          average_cost |-> current_position'[s].average_cost,
                          market_price |-> current_position'[s].market_price,
                          datetime     |-> event.datetime])
    ELSE UNCHANGED <<position_history, asset_history>>

\* C13: each call of Portfolio.on_market_event appends exactly one
\* portfolio-level snapshot and exactly one asset-level snapshot for every
\* symbol in current_position, so a run leaves one portfolio-level snapshot
\* per MarketEvent dispatched, N per timestamp for N symbols.
C13_SnapshotPerMarketEvent == [] C13_Counts /\ [][C13_Step]_vars

\* C13 witness: a snapshot round has just been taken for one symbol with three
\* symbols in current_position, the second round of its timestamp
C13_Witness ==
    /\ JustCompleted("portfolio.on_market_event")
    /\ Cardinality(DOMAIN current_position) >= 3
    /\ Len(position_history) >= 4
    /\ position_history[Len(position_history) - 1].datetime = event.datetime
    /\ \E s \in DOMAIN current_position :
         s # event.symbol /\ Len(asset_history[s]) >= 2

\* the signals the strategy appended during tick t, by their number in the
\* history of appends
StrategySignals(t) ==
    {i \in 1..Len(enqueued) :
        enqueued[i].by = "strategy" /\ enqueued[i].tick = t}

\* the MarketEvent of symbol s and tick t has been dispatched with open o
OpenOf(s, t, o) ==
    \E i \in DispatchedOf("MARKET") :
        /\ dispatched[i].symbol = s
        /\ dispatched[i].datetime = t
        /\ dispatched[i].open = o

\* every event appended in ticks 1..t has been dispatched and handled
Drained(t) == tick > t \/ (tick = t /\ pc \in {"for", "done"})

\* the signal of tick 2 for symbol s with strength d, its order of quantity
\* 10 * d and, once tick 3 is over, its fill at the tick-3 open of s
ScenarioEntry(s, d) ==
    \E i \in StrategySignals(2) :
        /\ enqueued[i].ev = SignalEvent(s, RatInt(d))
        /\ \E o \in PortfolioOrders :
              /\ SignalOf(enqueued[o]) = enqueued[i].ev
              /\ enqueued[o].tick = 2
              /\ enqueued[o].ev = OrderEvent(s, "MARKET", SizingConstant * d)
        /\ Drained(3) =>
              \E f \in 1..Len(fill_log) :
                  /\ fill_log[f].order_tick = 2
                  /\ fill_log[f].tick = 3
                  /\ fill_log[f].fill.symbol = s
                  /\ fill_log[f].fill.quantity = SizingConstant * d
                  /\ \E o \in {11, 13} :
                        /\ OpenOf(s, 3, o)
                        /\ fill_log[f].fill.fill_cost = SizingConstant * d * o

\* C14: in the scenario the strategy emits SignalEvent(A, +1) and
\* SignalEvent(B, -1) during tick 2, the portfolio turns them into the orders
\* A +10 and B -10, and their fills are priced at the tick-3 opens.
C14_ScenarioEntries ==
    Drained(2) => ScenarioEntry("A", 1) /\ ScenarioEntry("B", -1)

\* C15: in the scenario every pending signal scheduled in tick 2 is emitted in
\* tick 4, and once tick 4 is over the exits SignalEvent(A, -1) and
\* SignalEvent(B, +1) have been emitted, each before every entry signal of
\* tick 4.
C15_ScenarioExits ==
    /\ \A x \in 1..Len(exit_log) :
          exit_log[x].sched = 2 => exit_log[x].tick = 4
    /\ Drained(4) =>
          \A s \in {"A", "B"} :
              \E x \in 1..Len(exit_log) :
                  /\ exit_log[x].sched = 2
                  /\ exit_log[x].ev =
                        SignalEvent(s, RatInt(IF s = "A" THEN -1 ELSE 1))
                  /\ \A i \in StrategySignals(4) :
                        (\A y \in 1..Len(exit_log) : exit_log[y].at # i)
                           => exit_log[x].at < i

\* the entry signals the strategy has appended: its signals that did not come
\* from a deque of pending signals
EntrySignalsAt ==
    {i \in 1..Len(enqueued) :
        /\ enqueued[i].by = "strategy"
        /\ \A x \in 1..Len(exit_log) : exit_log[x].at # i}

\* the signal that offsets the signal sig
Offsetting(sig) ==
    SignalEvent(sig.symbol, [num |-> -sig.strength.num, den |-> sig.strength.den])

\* C16: an exit is emitted k ticks after the tick it was scheduled in, at a
\* MarketEvent of its own symbol; and once tick t + k is over, every entry
\* signal of tick t has had its offsetting exit emitted, in tick t + k.
C16_FixedHoldingPeriod ==
    /\ \A x \in 1..Len(exit_log) :
          exit_log[x].sched > 0 =>
             /\ exit_log[x].tick = exit_log[x].sched + k
             /\ exit_log[x].ev.symbol = exit_log[x].ticker
    /\ \A i \in EntrySignalsAt :
          (strategy = "momentum" /\ Drained(enqueued[i].tick + k)) =>
             \E x \in 1..Len(exit_log) :
                /\ exit_log[x].sched = enqueued[i].tick
                /\ exit_log[x].tick = enqueued[i].tick + k
                /\ exit_log[x].ev = Offsetting(enqueued[i].ev)

\* the exits scheduled for ticker t and not yet emitted
PendingExits(t) ==
    {i \in 1..Len(pending_sched[t]) : pending_sched[t][i] > 0}

\* C17, in every state: a ticker's deque of pending signals holds at most k
\* signals, and every exit scheduled for the ticker has been emitted or is
\* still in its deque
C17_Bound ==
    strategy = "momentum" =>
       \A t \in DOMAIN pending_signals :
          /\ Len(pending_signals[t]) <= k
          /\ Cardinality({i \in EntrySignalsAt : enqueued[i].ev.symbol = t})
                = Cardinality({x \in 1..Len(exit_log) :
                                  /\ exit_log[x].ticker = t
                                  /\ exit_log[x].sched > 0})
                  + Cardinality(PendingExits(t))

\* C17, in every step: a deque of pending signals loses at most its head, and
\* only at a MarketEvent of its ticker, where the head is appended to the
\* queue; what remains stays in place, with at most one signal added behind
C17_Step ==
    \A t \in DOMAIN pending_signals :
        LET old    == pending_signals[t]
            new    == pending_signals'[t]
            popped == /\ old # <<>>
                      /\ pc = "strategy.on_market_event"
                      /\ t = event.symbol
                      /\ Len(enqueued') > Len(enqueued)
                      /\ enqueued'[Len(enqueued) + 1].ev = Head(old)
            rest   == IF popped THEN Tail(old) ELSE old
        IN  \/ new = rest
            \/ /\ Len(new) = Len(rest) + 1
               /\ SubSeq(new, 1, Len(rest)) = rest

\* C17: each ticker's deque of pending signals holds at most k signals, and
\* appending a newly scheduled exit never evicts a signal that has not been
\* emitted.
C17_PendingQueueBound == [] C17_Bound /\ [][C17_Step]_vars

\* C17 witness: an exit is scheduled for the second ticker while its deque
\* still holds k - 1 signals, one of them an exit, and the deque is full after
C17_Witness ==
    /\ strategy = "momentum"
    /\ k >= 2
    /\ \E t \in DOMAIN pending_signals :
         /\ t # tickers[1]
         /\ Len(pending_signals[t]) = k
         /\ Cardinality(PendingExits(t)) >= 2

IsPrefix(a, b) == Len(a) <= Len(b) /\ a = SubSeq(b, 1, Len(a))

\* C18: a rerun of the momentum strategy on the rows of a run, with freshly
\* constructed objects, dispatches the events the run dispatched, in the same
\* order, and ends as the run ended, with the same portfolio-level and
\* asset-level snapshot histories.
C18_Determinism ==
    replay.ticks # -1 =>
       /\ IsPrefix(dispatched, replay.dispatched)
       /\ IsPrefix(position_history, replay.position_history)
       /\ pc \in {"done", "error"} =>
             /\ pc = replay.pc
             /\ dispatched = replay.dispatched
             /\ position_history = replay.position_history
             /\ asset_history = replay.asset_history

\* C18 witness: the rerun of a run over three ticks of two tickers, with two
\* entry signals in one tick and fills of non-zero cost, is over
C18_Witness ==
    /\ replay.ticks = 3
    /\ pc = "done"
    /\ Len(tickers) = 2
    /\ cash # InitialCash
    /\ \E i \in 1..Len(dispatched) - 1 :
         /\ dispatched[i].type = "SIGNAL"
         /\ dispatched[i + 1].type = "SIGNAL"
         /\ dispatched[i].symbol \notin {"", dispatched[i + 1].symbol}
         /\ dispatched[i + 1].symbol # ""
    /\ \E s \in DOMAIN asset_history : Len(asset_history[s]) >= 4

KnownTypes == {"MARKET", "SIGNAL", "ORDER", "FILL"}

\* C19: when run has popped an event of no known kind the run is in error, no
\* handler has been called for the event, and no event has been dispatched
\* after it.
C19_UnknownEventAborts ==
    \A i \in 1..Len(dispatched) :
        dispatched[i].type \notin KnownTypes =>
           /\ pc = "error"
           /\ i = Len(dispatched)
           /\ \A n \in 1..Len(calls) : calls[n].no # i

\* C19 witness: an event of no known kind has been popped after a fill was
\* dispatched, with events still in the queue behind it
C19_Witness ==
    /\ dispatched # <<>>
    /\ Last(dispatched).type \notin KnownTypes
    /\ event_queue # <<>>
    /\ \E i \in DispatchedOf("FILL") : dispatched[i].quantity # 0

\* the state a component keeps between calls
StrategyState ==
    <<tickers_history, current_datetime, current_period, pending_signals>>
ExecutionHandlerState == <<market_history, pending>>
PortfolioState == <<cash, current_position, position_history, asset_history>>

\* C20: a queue-producing operation of a component without a queue (the
\* feed's next batch, Strategy.on_market_event, Portfolio.on_signal_event,
\* ExecutionHandler.execute_order, ExecutionHandler.on_market_event with a
\* pending fill) raises an error, appends nothing and leaves the component's
\* own state (feed position, strategy state, pending fills and market
\* history, portfolio state) as it was.
C20_Step ==
    /\ (pc = "for" /\ pc' # "done" /\ "data_handler" \notin attached) =>
          pc' = "error" /\ UNCHANGED <<event_queue, tick>>
    /\ (pc = "strategy.on_market_event" /\ "strategy" \notin attached) =>
          pc' = "error" /\ UNCHANGED <<event_queue, StrategyState>>
    /\ (pc = "portfolio.on_signal_event" /\ "portfolio" \notin attached) =>
          pc' = "error" /\ UNCHANGED <<event_queue, PortfolioState>>
    /\ (/\ pc = "execution_handler.execute_order"
        /\ "execution_handler" \notin attached) =>
          pc' = "error" /\ UNCHANGED <<event_queue, ExecutionHandlerState>>
    /\ (/\ pc = "execution_handler.on_market_event"
        /\ pending # <<>>
        /\ "execution_handler" \notin attached) =>
          pc' = "error" /\ UNCHANGED <<event_queue, ExecutionHandlerState>>

C20_DetachedFailsCleanly == [][C20_Step]_vars


\* ------------------------------------------------------------------- C21
\* the entries of the append history a step adds
Appended == SubSeq(enqueued', Len(enqueued) + 1, Len(enqueued'))

\* the run is over: the for loop ended, or an exception left run
Terminated == ~Running

\* what one step may append: the feed one MarketEvent per ticker, the
\* strategy signals only and no more than one exit and one entry per ticker,
\* the execution handler at most one fill on a MarketEvent, the portfolio
\* one order for a signal, and nothing for an order or a fill
C21_FanOut ==
    /\ IsPrefix(enqueued, enqueued')
    /\ pc = "for" =>
          /\ Len(Appended) \in {0, Len(tickers)}
          /\ \A i \in 1..Len(Appended) : Appended[i].ev.type = "MARKET"
    /\ pc = "while" => Appended = <<>>
    /\ pc = "strategy.on_market_event" =>
          /\ Len(Appended) <= 1 + Len(tickers)
          /\ \A i \in 1..Len(Appended) : Appended[i].ev.type = "SIGNAL"
    /\ pc = "execution_handler.on_market_event" =>
          /\ Len(Appended) <= 1
          /\ \A i \in 1..Len(Appended) : Appended[i].ev.type = "FILL"
    /\ pc = "portfolio.on_market_event" => Appended = <<>>
    /\ pc = "portfolio.on_signal_event" =>
          /\ Len(Appended) = 1
          /\ Appended[1].ev.type = "ORDER"
    /\ pc = "execution_handler.execute_order" => Appended = <<>>
    /\ pc = "portfolio.on_fill_event" => Appended = <<>>

\* the run ends normally only from the for loop, at the exhausted feed, with
\* the queue empty and every event ever appended dispatched
C21_NormalEnd ==
    (pc' = "done" /\ pc # "done") =>
        /\ pc = "for"
        /\ tick <= MaxTicks
        /\ event_queue = <<>>
        /\ dispatched = Events(enqueued)
        /\ UNCHANGED <<event_queue, dispatched, enqueued, tick>>

\* C21: for every finite feed run terminates: each drain loop comes back to
\* the for loop with the queue empty (or an exception leaves run) after
\* finitely many dispatches, a MarketEvent causing finitely many signals and
\* at most one fill, a signal one order, an order and a fill nothing; run
\* ends normally exactly at the exhausted feed, with the queue empty; every
\* statement reached can be executed, so the thread is never stuck
C21_Termination ==
    /\ <>Terminated
    /\ [](Terminated \/ ENABLED Next)
    /\ [](pc \in Locations)
    /\ (pc = "while") ~> ((pc = "for" /\ event_queue = <<>>) \/ pc = "error")
    /\ [][C21_FanOut /\ C21_NormalEnd]_vars
    /\ [](pc = "done" => event_queue = <<>>)

\* a run over the whole feed that ended normally after fills were applied
C21_Witness ==
    /\ pc = "done"
    /\ tick = MaxTicks
    /\ fill_log # <<>>
    /\ \E i \in 1..Len(calls) : calls[i].handler = "portfolio.on_fill_event"


\* ------------------------------------------------------------------- C22
\* what a call of ExecutionHandler.on_market_event does to the pending fills
C22_Step ==
    (pc = "execution_handler.on_market_event" /\ pc' # "error") =>
        IF pending = <<>>
        THEN pending' = <<>> /\ Appended = <<>>
        ELSE /\ pending' = SubSeq(pending, 1, Len(pending) - 1)
             /\ Len(Appended) = 1
             /\ Appended[1].by = "execution_handler"
             /\ Appended[1].ev =
                   FillEvent(Last(pending).symbol, Last(pending).quantity,
                             Last(pending).quantity * event.open,
                             Last(pending).commission)
             /\ event_queue' = Append(event_queue, Appended[1].ev)
             \* the fill resolved is the one of the latest order pending
             /\ \A i \in 1..Len(pending_src) :
                   pending_src[i].order_no <= Last(fill_log').order_no

Ranking ==
    /\ pc = "strategy.on_market_event"
    /\ strategy = "momentum"
    /\ event.symbol \in subscribed
    /\ event.datetime # current_datetime
    /\ current_period + 1 >= j

\* the buffers a ranking reads hold the closes of the last j ticks, the
\* current one included, and the ranking does not raise
C23_Step ==
    Ranking =>
        /\ \A t \in subscribed :
              /\ Len(tickers_history[t]) = j
              /\ \A i \in 1..j :
                    tickers_history[t][i].datetime = event.datetime - j + i
        /\ pc' # "error"

\* C23: whenever the momentum strategy computes a ranking, every tracked
\* symbol's history buffer holds exactly j MarketEvents, those of the last
\* j ticks including the current one, and is never empty when read, for
\* every j >= 1
C23_RankingReadsJCloses == [][C23_Step]_vars


\* ------------------------------------------------------------------- C24
\* the signals the call of generate_signal that is running appended
StrategyAppended ==
    {i \in 1..Len(enqueued) :
        enqueued[i].by = "strategy" /\ enqueued[i].cause = Len(dispatched)}

\* the entry signals of a ranking step: what it appends after the pending
\* signal it popped, if it popped one
C24_Step ==
    (Ranking /\ pc' # "error") =>
        LET rs      == [i \in 1..Len(tickers) |->
                          TickerReturn(tickers_history[tickers[i]])]
            p10     == Percentile(rs, ShortPercentile)
            p90     == Percentile(rs, LongPercentile)
            popped  == IF pending_signals[event.symbol] = <<>> THEN 0 ELSE 1
            entries == [i \in 1..(Len(Appended) - popped) |->
                          Appended[popped + i].ev]
            For(t)  == {i \in 1..Len(entries) : entries[i].symbol = t}
        IN  /\ Len(Appended) >= popped
            /\ \A i \in 1..Len(entries) : entries[i].symbol \in Range(tickers)
            /\ \A i \in 1..Len(tickers) :
                  IF RatLeq(rs[i], p10)
                  THEN /\ Cardinality(For(tickers[i])) = 1
                       /\ \A m \in For(tickers[i]) :
                             entries[m] = SignalEvent(tickers[i], RatInt(-1))
                  ELSE IF RatLeq(p90, rs[i])
                  THEN /\ Cardinality(For(tickers[i])) = 1
                       /\ \A m \in For(tickers[i]) :
                             entries[m] = SignalEvent(tickers[i], RatInt(1))
                  ELSE For(tickers[i]) = {}

\* C24: in each ranking a symbol with return at or below the 10th
\* percentile gets exactly one entry signal, of strength -1, a symbol at or
\* above the 90th percentile and not at or below the 10th exactly one of
\* strength +1, every other symbol none; a symbol at both thresholds gets
\* only the short signal
C24_EntrySignals == [][C24_Step]_vars

\* a ranking over three tickers just entered A short and C long and left B
\* out, after an earlier ranking with all returns equal entered all short
C24_Witness ==
    /\ pc = "execution_handler.on_market_event"
    /\ Len(tickers) = 3
    /\ \E i \in StrategyAppended :
          enqueued[i].ev = SignalEvent("A", RatInt(-1))
    /\ \E i \in StrategyAppended :
          enqueued[i].ev = SignalEvent("C", RatInt(1))
    /\ \A i \in StrategyAppended : enqueued[i].ev.symbol # "B"
    /\ \E i \in 1..Len(enqueued) :
          /\ enqueued[i].tick < tick
          /\ enqueued[i].ev = SignalEvent("B", RatInt(-1))


\* ------------------------------------------------------------------- C25
\* a step keeps every snapshot appended so far, in its place and with its
\* value, and every symbol of current_position
C25_Step ==
    /\ IsPrefix(position_history, position_history')
    /\ DOMAIN asset_history \subseteq DOMAIN asset_history'
    /\ \A s \in DOMAIN asset_history :
          IsPrefix(asset_history[s], asset_history'[s])
    /\ DOMAIN current_position \subseteq DOMAIN current_position'

\* C25: portfolio history and positions only grow: every operation leaves
\* the portfolio-level and asset-level snapshots appended before unchanged
\* in value and order, also when the Position changes later, and a symbol
\* once in current_position is never removed, also at quantity 0
C25_HistoryOnlyGrows == [][C25_Step]_vars

\* a position is back at quantity 0 and still there, and a snapshot taken
\* while it was open still shows the quantity it had
C25_Witness ==
    \E s \in DOMAIN current_position :
        /\ current_position[s].quantity = 0
        /\ s \in DOMAIN asset_history
        /\ \E i \in 1..Len(asset_history[s]) :
              /\ asset_history[s][i].quantity # 0
              /\ i < Len(asset_history[s])
        /\ Len(position_history) >= 2


\* ------------------------------------------------------------------- C26
\* C26: every signal the momentum strategy appends to the queue names a
\* tracked symbol and has strength +1 or -1 (it is an entry of a ranking or
\* the offset of an earlier entry), and the portfolio never has a position
\* or an asset history for a symbol that is not in the feed
C26_OnlyTrackedSymbols ==
    strategy = "momentum" =>
        /\ \A i \in 1..Len(enqueued) :
              enqueued[i].by = "strategy" =>
                  /\ enqueued[i].ev.symbol \in subscribed
                  /\ enqueued[i].ev.strength \in {RatInt(1), RatInt(-1)}
        /\ DOMAIN current_position \subseteq Range(tickers)
        /\ DOMAIN asset_history \subseteq Range(tickers)


\* ------------------------------------------------------------------- C27
\* C27: with more than one symbol per tick, every FillEvent applied to the
\* portfolio for a symbol S of the feed has fill_cost = quantity * the open
\* of some MarketEvent of S dispatched before it
C27_FillPricedAtOwnOpen ==
    Len(tickers) > 1 =>
        \A i \in 1..Len(calls) :
            (/\ calls[i].handler = "portfolio.on_fill_event"
             /\ calls[i].ev.symbol \in Range(tickers)) =>
                \E m \in 1..calls[i].no :
                    /\ dispatched[m].type = "MARKET"
                    /\ dispatched[m].symbol = calls[i].ev.symbol
                    /\ calls[i].ev.fill_cost
                          = calls[i].ev.quantity * dispatched[m].open

====
